---- MODULE Spec2Model ----
(***************************************************************************)
(* MCP proxy gateway (src/proxy/server.ts, kept as src/unnamed/part_007    *)
(* lines 71-119) with its target registry (src/src/config/targets.ts).     *)
(*                                                                         *)
(* Two request handlers are modelled:                                      *)
(*   POST /mcp/:target     Post, then one of BackendRespond, NetworkError, *)
(*                         Timeout (the continuation after the await)      *)
(*   GET  /mcp/get_methods GetMethods, then per target AggBackendRespond,  *)
(*                         AggNetworkError, AggTimeout, then               *)
(*                         GetMethodsRespond                                *)
(* The backends and the network are the environment: what they answer is   *)
(* chosen nondeterministically from small sets.                            *)
(***************************************************************************)
EXTENDS Integers, Sequences, FiniteSets, TLC

VARIABLES
    pc,         \* per inbound POST: "idle", "awaiting" (at the await), "done"
    req,        \* per inbound POST: [target, body] as Express hands them over
    sent,       \* per inbound POST: the requests axios sent to a backend
    settled,    \* per inbound POST: how the axios promise settled
    res,        \* per inbound POST: the Express response object
    aggPc,      \* GET /mcp/get_methods: "idle", "awaiting", "done"
    aggSent,    \* the requests the aggregation sent, in the order issued
    results,    \* Promise.allSettled's result array, one slot per entry
    delivered,  \* history: how the call of each entry settled, by entry
    overtaken,  \* some call settled while an earlier entry's was pending
    aggRes,     \* the Express response object of the aggregation
    query,      \* parseQuery: the string given to it
    parsedQuery, \* parseQuery: <<>> before the call, <<result>> after it
    agent,      \* per handleQuery call: its position and what it has done
    retrieverPromise,   \* the module-level cache of getRetriever
    buildCalls, \* how many times buildRetriever was invoked
    cli,        \* the query runner: its position, what it printed, its exit code
    ui,         \* per request to a UI query endpoint: its position and answer
    build       \* one run of buildRetriever and the retrievals that follow it

vars ==
    <<pc, req, sent, settled, res, aggPc, aggSent, results, delivered, overtaken, aggRes,
      query, parsedQuery, agent, retrieverPromise, buildCalls, cli, ui, build>>
routeVars == <<pc, req, sent, settled, res>>
aggVars == <<aggPc, aggSent, results, delivered, overtaken, aggRes>>
parserVars == <<query, parsedQuery>>
handlerVars == <<agent, retrieverPromise, buildCalls>>
agentVars == <<parserVars, handlerVars>>
gatewayVars == <<routeVars, aggVars>>
frontVars == <<cli, ui, build>>

----------------------------------------------------------------------------
(* JavaScript / JSON values.  A string is the sequence of the literal      *)
(* pieces it was built from, so a template literal keeps its parts.        *)

Undefined == [t |-> "undefined"]
Null == [t |-> "null"]
Str(parts) == [t |-> "string", parts |-> parts]
Num(n) == [t |-> "number", n |-> n]
Inherited(name) == [t |-> "inherited", name |-> name]

\* !v of JavaScript, for the kinds of value a registry lookup can give.
Falsy(v) == v.t \in {"undefined", "null"} \/ v = Str(<<>>) \/ v = Str(<<"">>)

----------------------------------------------------------------------------
(* The target registry.                                                    *)

\* Variant: the registry without its fifth entry.
TARGETSWithoutPlaywright ==
    << [key |-> "filesystem", url |-> "http://localhost:7001"],
       [key |-> "github",     url |-> "http://localhost:7002"],
       [key |-> "atlassian",  url |-> "http://localhost:7003"],
       [key |-> "gdrive",     url |-> "http://localhost:7004"] >>

\* Variant: the registry without the gdrive entry.
TARGETSWithoutGdrive ==
    << [key |-> "filesystem", url |-> "http://localhost:7001"],
       [key |-> "github",     url |-> "http://localhost:7002"],
       [key |-> "atlassian",  url |-> "http://localhost:7003"],
       [key |-> "playwright", url |-> "http://localhost:7005"] >>

TARGETS ==
    << [key |-> "filesystem", url |-> "http://localhost:7001"],
       [key |-> "github",     url |-> "http://localhost:7002"],
       [key |-> "atlassian",  url |-> "http://localhost:7003"],
       [key |-> "gdrive",     url |-> "http://localhost:7004"],
       [key |-> "playwright", url |-> "http://localhost:7005"] >>

\* Property names every object literal inherits from Object.prototype.
ObjectPrototypeKeys ==
    {"constructor", "toString", "valueOf", "hasOwnProperty", "__proto__"}

\* TARGETS[target]: an own property, else an inherited one, else undefined.
TargetsGet(target) ==
    IF \E i \in 1..Len(TARGETS) : TARGETS[i].key = target
    THEN LET i == CHOOSE j \in 1..Len(TARGETS) : TARGETS[j].key = target
         IN  Str(<<TARGETS[i].url>>)
    ELSE IF target \in ObjectPrototypeKeys THEN Inherited(target)
    ELSE Undefined

\* Object.entries(TARGETS): the own properties, in insertion order.
entries == [i \in 1..Len(TARGETS) |-> <<TARGETS[i].key, TARGETS[i].url>>]

----------------------------------------------------------------------------
(* The JSON-RPC request schema.                                            *)

\* z.literal('2.0')
ZLiteral20(v) == v = Str(<<"2.0">>)
\* z.string()
ZString(v) == v.t = "string"
\* z.union([z.string(), z.number()]).optional()
ZOptionalStringOrNumber(v) == v.t \in {"undefined", "string", "number"}

\* What JsonRpcSchema.parse throws: a ZodError has a message and no response.
ZodError == [message |-> Str(<<"ZodError: invalid envelope">>), response |-> Undefined]

\* Variant: the id is not validated.
JsonRpcSchemaIdUnchecked(body) ==
    IF ZLiteral20(body.jsonrpc) /\ ZString(body.method)
    THEN [success |-> TRUE,
          data |-> [jsonrpc |-> body.jsonrpc, method |-> body.method,
                    params |-> body.params, id |-> body.id]]
    ELSE [success |-> FALSE, error |-> ZodError]

\* Variant: the body is forwarded as it came in.
JsonRpcSchemaPassthrough(body) ==
    IF /\ ZLiteral20(body.jsonrpc)
       /\ ZString(body.method)
       /\ ZOptionalStringOrNumber(body.id)
    THEN [success |-> TRUE, data |-> body]
    ELSE [success |-> FALSE, error |-> ZodError]

\* JsonRpcSchema applied to a parsed body.  z.object keeps the declared
\* keys only; params is z.any().optional() and accepts everything.
JsonRpcSchema(body) ==
    IF /\ ZLiteral20(body.jsonrpc)
       /\ ZString(body.method)
       /\ ZOptionalStringOrNumber(body.id)
    THEN [success |-> TRUE,
          data |-> [jsonrpc |-> body.jsonrpc, method |-> body.method,
                    params |-> body.params, id |-> body.id]]
    ELSE [success |-> FALSE, error |-> ZodError]

----------------------------------------------------------------------------
(* The Express response object and the two ways the POST handler answers.  *)

\* A fresh response: Express starts every response at status 200.
NewRes == [statusCode |-> 200, body |-> Undefined, finished |-> FALSE]
\* res.status(code)
ResStatus(r, code) == [r EXCEPT !.statusCode = code]
\* res.json(body)
ResJson(r, body) == [r EXCEPT !.body = body, !.finished = TRUE]

\* a ?? b
Coalesce(a, b) == IF a.t \in {"undefined", "null"} THEN b ELSE a

\* JSON.stringify({ error, details }): a key whose value is undefined is
\* left out of the serialised object.
ErrorJson(error, details) ==
    IF details = Undefined THEN [error |-> error]
    ELSE [error |-> error, details |-> details]

\* The per-call deadlines, in milliseconds.
RouteTimeoutMs == 15000
AggTimeoutMs == 10000

\* Variant: the call is made without a timeout option; axios' default
\* timeout of 0 sets no timer.
RouteConfigDefault == [timeout |-> 0]

\* The axios request configs: { timeout: 15000 } and { timeout: 10000 }.
RouteConfig == [timeout |-> RouteTimeoutMs]
AggConfig == [timeout |-> AggTimeoutMs]

\* axios' default validateStatus.
ValidateStatus(status) == status >= 200 /\ status < 300

\* The errors axios rejects with.
AxiosStatusError(response) ==
    [message |-> Str(<<"Request failed with status code ", ToString(response.status)>>),
     response |-> response]
AxiosNetworkError ==
    [message |-> Str(<<"connect ECONNREFUSED">>), response |-> Undefined]
AxiosTimeoutError(ms) ==
    [message |-> Str(<<"timeout of ", ToString(ms), "ms exceeded">>),
     response |-> Undefined]
\* axios given something that is no URL string: fails before any I/O.
AxiosInvalidUrl == [message |-> Str(<<"Invalid URL">>), response |-> Undefined]

\* err?.response?.status and err?.response?.data
ErrResponseStatus(err) ==
    IF err.response = Undefined THEN Undefined ELSE Num(err.response.status)
ErrResponseData(err) ==
    IF err.response = Undefined THEN Undefined ELSE err.response.data

\* Variant: every failure is answered with 500, whatever the backend said.
CatchAlways500(err) ==
    ResJson(ResStatus(NewRes, 500),
            ErrorJson(Coalesce(err.message, Str(<<"Proxy error">>)),
                      ErrResponseData(err)))

\* The catch block of the POST handler.
Catch(err) ==
    LET status == Coalesce(ErrResponseStatus(err), Num(500))
    IN  ResJson(ResStatus(NewRes, status.n),
                ErrorJson(Coalesce(err.message, Str(<<"Proxy error">>)),
                          ErrResponseData(err)))

\* Variant: a JSON-RPC error envelope is turned into an HTTP failure.
RelayRpcErrorAsFailure(response) ==
    IF "error" \in DOMAIN response.data
    THEN ResJson(ResStatus(NewRes, 500), [error |-> response.data.error.message])
    ELSE ResJson(ResStatus(NewRes, 200), response.data)

\* const { data } = await axios.post(...); return res.status(200).json(data)
Relay(response) == ResJson(ResStatus(NewRes, 200), response.data)

\* if (!downstream) return res.status(404).json({ error: `Unknown target ${target}` })
UnknownTarget(target) ==
    ResJson(ResStatus(NewRes, 404), [error |-> Str(<<"Unknown target ", target>>)])

----------------------------------------------------------------------------
(* Inputs and environment of POST /mcp/:target.                            *)

\* Number of inbound POST requests that may be in flight together.
NumRequests == 2
Requests == 1..NumRequests

\* Path parameters tried: registered names, an unregistered name, and a name
\* that TARGETS inherits from Object.prototype.
TargetNames == {"filesystem", "github", "unknown", "constructor"}

\* A well-formed envelope, and the bodies that differ from it in one field.
BaseBody ==
    [jsonrpc |-> Str(<<"2.0">>), method |-> Str(<<"ping">>),
     params |-> Undefined, id |-> Num(1)]
Bodies ==
    {BaseBody}
    \cup {[BaseBody EXCEPT !.jsonrpc = v] : v \in {Undefined, Str(<<"1.0">>)}}
    \cup {[BaseBody EXCEPT !.method = v] : v \in {Undefined, Num(7)}}
    \cup {[BaseBody EXCEPT !.id = v] : v \in {Undefined, Null}}

\* What a backend may answer to a payload: a JSON-RPC result or error
\* envelope echoing the id, with a 2xx status, or an HTTP error.
RpcResult(id) == [jsonrpc |-> Str(<<"2.0">>), id |-> id, result |-> Str(<<"pong">>)]
RpcError(id) ==
    [jsonrpc |-> Str(<<"2.0">>), id |-> id,
     error |-> [code |-> Num(-32601), message |-> Str(<<"Unknown RPC method">>)]]
BackendReplies(payload) ==
    { [status |-> 200, data |-> RpcResult(payload.id)],
      [status |-> 200, data |-> RpcError(payload.id)],
      [status |-> 201, data |-> RpcResult(payload.id)],
      [status |-> 500, data |-> [error |-> Str(<<"downstream failure">>)]],
      [status |-> 404, data |-> Str(<<"Not Found">>)] }

Pending == [status |-> "pending"]
Fulfilled(value) == [status |-> "fulfilled", value |-> value]
Rejected(reason) == [status |-> "rejected", reason |-> reason]
NoReq == [target |-> "", body |-> Undefined]

----------------------------------------------------------------------------
(* POST /mcp/:target                                                       *)

\* The handler up to its await: lookup, validation, and the call to axios.
Post(r, target, body) ==
    /\ pc[r] = "idle"
    /\ req' = [req EXCEPT ![r] = [target |-> target, body |-> body]]
    /\ LET downstream == TargetsGet(target)
           parsed == JsonRpcSchema(body)
       IN  IF Falsy(downstream)
           THEN /\ res' = [res EXCEPT ![r] = UnknownTarget(target)]
                /\ pc' = [pc EXCEPT ![r] = "done"]
                /\ UNCHANGED <<sent, settled>>
           ELSE IF ~parsed.success
           THEN /\ res' = [res EXCEPT ![r] = Catch(parsed.error)]
                /\ pc' = [pc EXCEPT ![r] = "done"]
                /\ UNCHANGED <<sent, settled>>
           ELSE IF downstream.t # "string"
           THEN /\ settled' = [settled EXCEPT ![r] = Rejected(AxiosInvalidUrl)]
                /\ res' = [res EXCEPT ![r] = Catch(AxiosInvalidUrl)]
                /\ pc' = [pc EXCEPT ![r] = "done"]
                /\ UNCHANGED sent
           ELSE /\ sent' = [sent EXCEPT ![r] =
                              Append(@, [url |-> downstream.parts[1],
                                         payload |-> parsed.data,
                                         timeout |-> RouteConfig.timeout])]
                /\ pc' = [pc EXCEPT ![r] = "awaiting"]
                /\ UNCHANGED <<settled, res>>
    /\ UNCHANGED <<aggVars, agentVars, frontVars>>

\* The call a handler is waiting on, and the handlers that are waiting.
LastSent(r) == sent[r][Len(sent[r])]
Awaiting == {r \in Requests : pc[r] = "awaiting"}

\* The backend answers; axios resolves on a 2xx status and rejects otherwise,
\* and the handler continues after its await.
BackendRespond(r, reply) ==
    /\ pc[r] = "awaiting"
    /\ IF ValidateStatus(reply.status)
       THEN /\ settled' = [settled EXCEPT ![r] = Fulfilled(reply)]
            /\ res' = [res EXCEPT ![r] = Relay(reply)]
       ELSE /\ settled' = [settled EXCEPT ![r] = Rejected(AxiosStatusError(reply))]
            /\ res' = [res EXCEPT ![r] = Catch(AxiosStatusError(reply))]
    /\ pc' = [pc EXCEPT ![r] = "done"]
    /\ UNCHANGED <<req, sent, aggVars, agentVars, frontVars>>

\* Variant: a call that runs out of time ends every call in flight.
TimeoutAbortsAll(r) ==
    /\ pc[r] = "awaiting"
    /\ settled' = [s \in Requests |->
                     IF pc[s] = "awaiting"
                     THEN Rejected(AxiosTimeoutError(LastSent(r).timeout)) ELSE settled[s]]
    /\ res' = [s \in Requests |->
                 IF pc[s] = "awaiting"
                 THEN Catch(AxiosTimeoutError(LastSent(r).timeout)) ELSE res[s]]
    /\ pc' = [s \in Requests |-> IF pc[s] = "awaiting" THEN "done" ELSE pc[s]]
    /\ UNCHANGED <<req, sent, aggVars, agentVars, frontVars>>

\* Variant: a call that failed without a response is sent again.
NetworkErrorRetry(r) ==
    /\ pc[r] = "awaiting"
    /\ Len(sent[r]) < 3
    /\ sent' = [sent EXCEPT ![r] = Append(@, LastSent(r))]
    /\ UNCHANGED <<pc, req, settled, res, aggVars, agentVars, frontVars>>

\* The backend cannot be reached.
NetworkError(r) ==
    /\ pc[r] = "awaiting"
    /\ settled' = [settled EXCEPT ![r] = Rejected(AxiosNetworkError)]
    /\ res' = [res EXCEPT ![r] = Catch(AxiosNetworkError)]
    /\ pc' = [pc EXCEPT ![r] = "done"]
    /\ UNCHANGED <<req, sent, aggVars, agentVars, frontVars>>

\* The backend stays silent until the call's deadline; a deadline of 0
\* means axios sets no timer.
Timeout(r) ==
    /\ pc[r] = "awaiting"
    /\ LastSent(r).timeout > 0
    /\ LET err == AxiosTimeoutError(LastSent(r).timeout)
       IN  /\ settled' = [settled EXCEPT ![r] = Rejected(err)]
           /\ res' = [res EXCEPT ![r] = Catch(err)]
    /\ pc' = [pc EXCEPT ![r] = "done"]
    /\ UNCHANGED <<req, sent, aggVars, agentVars, frontVars>>

----------------------------------------------------------------------------
(* GET /mcp/get_methods                                                    *)

\* A JavaScript array, here the pair [key, data] an entry's call returns.
Arr(elems) == [t |-> "array", elems |-> elems]

\* What a backend may answer to get_methods.
GetMethodsReplies(payload) ==
    { [status |-> 200, data |-> RpcResult(payload.id)],
      [status |-> 200, data |-> RpcError(payload.id)],
      [status |-> 500, data |-> [error |-> Str(<<"downstream failure">>)]] }

\* The payload built for one entry: id is `gm-${key}`.
GetMethodsPayload(key) ==
    [jsonrpc |-> Str(<<"2.0">>), method |-> Str(<<"get_methods">>),
     id |-> Str(<<"gm-", key>>)]

\* Variant: outcomes are collected in the order they arrive.
ArrivalOrderPut(rs, i, outcome) ==
    LET first == CHOOSE k \in 1..Len(rs) :
                    /\ rs[k].status = "pending"
                    /\ \A j \in 1..(k - 1) : rs[j].status # "pending"
    IN  [rs EXCEPT ![first] = outcome]

\* Variant: the first rejection settles every call that is still pending.
FailFastPut(rs, i, outcome) ==
    [k \in 1..Len(rs) |->
        IF k = i \/ (outcome.status = "rejected" /\ rs[k].status = "pending")
        THEN outcome ELSE rs[k]]

\* Promise.allSettled: the outcome of the i-th promise goes to slot i,
\* and the combined promise resolves when no slot is pending.
AllSettledPut(rs, i, outcome) == [rs EXCEPT ![i] = outcome]
AllSettled(rs) == \A i \in 1..Len(rs) : rs[i].status # "pending"

\* r.status === 'fulfilled' ? r.value : r.reason?.message
AggregatedEntry(r) == IF r.status = "fulfilled" THEN r.value ELSE r.reason.message

\* Variant: the calls are made in a loop that awaits each one before it
\* issues the next.
GetMethodsSequential ==
    LET call(i) == [url |-> entries[i][2],
                    payload |-> GetMethodsPayload(entries[i][1]),
                    timeout |-> AggConfig.timeout]
    IN  \/ /\ aggPc = "idle"
           /\ aggSent' = <<call(1)>>
           /\ results' = [i \in 1..Len(entries) |-> Pending]
           /\ delivered' = [i \in 1..Len(entries) |-> Pending]
           /\ aggPc' = "awaiting"
           /\ UNCHANGED <<overtaken, aggRes, routeVars, agentVars, frontVars>>
        \/ /\ aggPc = "awaiting"
           /\ Len(aggSent) < Len(entries)
           /\ delivered[Len(aggSent)].status # "pending"
           /\ aggSent' = Append(aggSent, call(Len(aggSent) + 1))
           /\ UNCHANGED <<aggPc, results, delivered, overtaken, aggRes, routeVars, agentVars, frontVars>>

\* The handler up to its await: entries.map runs every async callback up to
\* its own await, so all the calls are issued in this one step.
GetMethods ==
    /\ aggPc = "idle"
    /\ aggSent' = [i \in 1..Len(entries) |->
                     [url |-> entries[i][2],
                      payload |-> GetMethodsPayload(entries[i][1]),
                      timeout |-> AggConfig.timeout]]
    /\ results' = [i \in 1..Len(entries) |-> Pending]
    /\ delivered' = [i \in 1..Len(entries) |-> Pending]
    /\ aggPc' = "awaiting"
    /\ UNCHANGED <<overtaken, aggRes, routeVars, agentVars, frontVars>>

\* The i-th call settles with `outcome`.
Settle(i, outcome) ==
    /\ aggPc = "awaiting"
    /\ delivered[i].status = "pending"
    /\ results' = AllSettledPut(results, i, outcome)
    /\ delivered' = [delivered EXCEPT ![i] = outcome]
    /\ overtaken' = (overtaken \/ \E j \in 1..(i - 1) : delivered[j].status = "pending")
    /\ UNCHANGED <<aggPc, aggSent, aggRes, routeVars, agentVars, frontVars>>

\* The i-th backend answers: the callback returns [key, data] on a 2xx
\* status, and axios rejects otherwise.
AggBackendRespond(i, reply) ==
    IF ValidateStatus(reply.status)
    THEN Settle(i, Fulfilled(Arr(<<Str(<<entries[i][1]>>), reply.data>>)))
    ELSE Settle(i, Rejected(AxiosStatusError(reply)))

AggNetworkError(i) == Settle(i, Rejected(AxiosNetworkError))

AggTimeout(i) ==
    /\ aggPc = "awaiting"
    /\ aggSent[i].timeout > 0
    /\ Settle(i, Rejected(AxiosTimeoutError(aggSent[i].timeout)))

\* Variant: the answer is an HTTP error when no target could be queried.
GetMethodsRespondAllFailed ==
    /\ aggPc = "awaiting"
    /\ AllSettled(results)
    /\ LET aggregated == [i \in 1..Len(results) |-> AggregatedEntry(results[i])]
           code == IF \A i \in 1..Len(results) : results[i].status = "rejected"
                   THEN 502 ELSE 200
       IN  aggRes' = ResJson(ResStatus(NewRes, code), [aggregated |-> aggregated])
    /\ aggPc' = "done"
    /\ UNCHANGED <<aggSent, results, delivered, overtaken, routeVars, agentVars, frontVars>>

\* Variant: the answer is sent without awaiting the calls; an entry whose
\* call has not settled is undefined.
GetMethodsRespondNoAwait ==
    /\ aggPc = "awaiting"
    /\ LET aggregated ==
             [i \in 1..Len(results) |->
                 IF results[i].status = "pending" THEN Undefined
                 ELSE AggregatedEntry(results[i])]
       IN  aggRes' = ResJson(NewRes, [aggregated |-> aggregated])
    /\ aggPc' = "done"
    /\ UNCHANGED <<aggSent, results, delivered, overtaken, routeVars, agentVars, frontVars>>

\* The continuation after the await: map the outcomes and answer.
GetMethodsRespond ==
    /\ aggPc = "awaiting"
    /\ AllSettled(results)
    /\ LET aggregated == [i \in 1..Len(results) |-> AggregatedEntry(results[i])]
       IN  aggRes' = ResJson(NewRes, [aggregated |-> aggregated])
    /\ aggPc' = "done"
    /\ UNCHANGED <<aggSent, results, delivered, overtaken, routeVars, agentVars, frontVars>>

----------------------------------------------------------------------------
(* parseQuery.  Here a string is the sequence of its characters.           *)

W_github == <<"g", "i", "t", "h", "u", "b">>
W_filesystem == <<"f", "i", "l", "e", "s", "y", "s", "t", "e", "m">>
W_atlassian == <<"a", "t", "l", "a", "s", "s", "i", "a", "n">>
W_gdrive == <<"g", "d", "r", "i", "v", "e">>
W_get_methods == <<"g", "e", "t", "_", "m", "e", "t", "h", "o", "d", "s">>

\* The characters \s matches and trim() strips, among those used here.
IsSpace(c) == c \in {" ", "\t", "\n"}

\* Variant: the query is split without being trimmed.
TrimNothing(s) == s

\* s.trim()
Trim(s) ==
    LET inked == {i \in 1..Len(s) : ~IsSpace(s[i])}
    IN  IF inked = {} THEN <<>>
        ELSE SubSeq(s, CHOOSE i \in inked : \A j \in inked : i <= j,
                       CHOOSE i \in inked : \A j \in inked : j <= i)

\* s.split(/\s+/): the pieces between the maximal runs of whitespace; a run
\* at either end leaves an empty piece there, and '' splits into [''].
RECURSIVE SplitWsLoop(_, _, _, _)
SplitWsLoop(s, i, cur, acc) ==
    IF i > Len(s) THEN Append(acc, cur)
    ELSE IF IsSpace(s[i])
    THEN IF i > 1 /\ IsSpace(s[i - 1])
         THEN SplitWsLoop(s, i + 1, cur, acc)
         ELSE SplitWsLoop(s, i + 1, <<>>, Append(acc, cur))
    ELSE SplitWsLoop(s, i + 1, Append(cur, s[i]), acc)
SplitWs(s) == SplitWsLoop(s, 1, <<>>, <<>>)

\* s.split(ch): the pieces between all the occurrences of ch.
RECURSIVE SplitCharLoop(_, _, _, _, _)
SplitCharLoop(s, ch, i, cur, acc) ==
    IF i > Len(s) THEN Append(acc, cur)
    ELSE IF s[i] = ch
    THEN SplitCharLoop(s, ch, i + 1, <<>>, Append(acc, cur))
    ELSE SplitCharLoop(s, ch, i + 1, Append(cur, s[i]), acc)
SplitChar(s, ch) == SplitCharLoop(s, ch, 1, <<>>, <<>>)

\* The tool names parseQuery knows.
KnownTools == <<W_github, W_filesystem, W_atlassian, W_gdrive>>
Includes(list, x) == \E i \in 1..Len(list) : list[i] = x

\* obj[k] = v on a plain object: a function from keys to values.
Assign(obj, k, v) == [x \in (DOMAIN obj) \cup {k} |-> IF x = k THEN v ELSE obj[x]]

\* for (const p of argsParts) { const [k, v] = p.split('='); if (k) args[k] = v ?? '' }
RECURSIVE ArgsLoop(_, _)
ArgsLoop(argsParts, args) ==
    IF argsParts = <<>> THEN args
    ELSE LET kv == SplitChar(Head(argsParts), "=")
             k == kv[1]
             v == IF Len(kv) >= 2 THEN kv[2] ELSE <<>>
         IN  ArgsLoop(Tail(argsParts), IF k # <<>> THEN Assign(args, k, v) ELSE args)

\* Variant: no default for a missing action.
ActionOrEmpty(parts) == IF Len(parts) >= 2 THEN parts[2] ELSE <<>>

\* parts[1] ?? 'get_methods'
ActionOf(parts) == IF Len(parts) >= 2 THEN parts[2] ELSE W_get_methods

parseQuery(q) ==
    LET parts == SplitWs(Trim(q))
    IN  [tool |-> IF Includes(KnownTools, parts[1]) THEN parts[1] ELSE W_filesystem,
         action |-> ActionOf(parts),
         args |-> ArgsLoop(SubSeq(parts, 3, Len(parts)), <<>>)]

\* The strings parseQuery is tried on: every concatenation of at most
\* MaxPieces of these pieces.
MaxPieces == 7
Pieces == {<<" ">>, <<"=">>, <<"a">>, W_github}
RECURSIVE Concat(_)
Concat(ps) == IF ps = <<>> THEN <<>> ELSE Head(ps) \o Concat(Tail(ps))
Queries == UNION {{Concat(ps) : ps \in [1..n -> Pieces]} : n \in 0..MaxPieces}

Parse ==
    /\ parsedQuery = <<>>
    /\ parsedQuery' = <<parseQuery(query)>>
    /\ UNCHANGED <<query, handlerVars, gatewayVars, frontVars>>

----------------------------------------------------------------------------
(* handleQuery                                                             *)

\* Number of handleQuery calls that may be in progress together.
NumHandlers == 2
Handlers == 1..NumHandlers

IdleCall == [pc |-> "idle"]

----------------------------------------------------------------------------
GatewayInit ==
    /\ pc = [r \in Requests |-> "idle"]
    /\ req = [r \in Requests |-> NoReq]
    /\ sent = [r \in Requests |-> <<>>]
    /\ settled = [r \in Requests |-> Pending]
    /\ res = [r \in Requests |-> NewRes]
    /\ aggPc = "idle"
    /\ aggSent = <<>>
    /\ results = <<>>
    /\ delivered = <<>>
    /\ overtaken = FALSE
    /\ aggRes = NewRes

HandlerInit ==
    /\ agent = [h \in Handlers |-> IdleCall]
    /\ retrieverPromise = Null
    /\ buildCalls = 0

\* Number of requests to the UI query endpoints that may be in progress
\* together.
NumUiRequests == 2
UiRequests == 1..NumUiRequests

\* The query runner before main, a UI request not yet received, and
\* buildRetriever not yet called.
CliStart == [pc |-> "start", stdout |-> <<>>, stderr |-> <<>>, exitCode |-> Undefined]
UiIdle == [pc |-> "idle"]
BuildIdle == [pc |-> "idle"]

FrontInit ==
    /\ cli = CliStart
    /\ ui = [u \in UiRequests |-> UiIdle]
    /\ build = BuildIdle


Init ==
    /\ GatewayInit
    /\ HandlerInit
    /\ FrontInit
    /\ query = <<>>
    /\ parsedQuery = <<>>

\* parseQuery applied once to a string of Queries.
ParseInit ==
    /\ GatewayInit
    /\ HandlerInit
    /\ FrontInit
    /\ query \in Queries
    /\ parsedQuery = <<>>

ParseNext == Parse

ParseSpec == ParseInit /\ [][ParseNext]_vars

-----------------------------------------------------------------------------
(* handleQuery and the lazily built retriever.                             *)

W_get_user == <<"g", "e", "t", "_", "u", "s", "e", "r">>
W_user == <<"u", "s", "e", "r">>
W_octocat == <<"o", "c", "t", "o", "c", "a", "t">>
W_method == <<"m", "e", "t", "h", "o", "d">>
W_evil == <<"e", "v", "i", "l">>
W_invoke_method == W_method \o <<"_">> \o W_method

\* The queries handleQuery is called with: a tool, an action and one
\* argument; the same with an argument named method; a tool alone.
ProxyBaseDefault == <<"http://localhost:8002">>

\* The calls of handleQuery: a tool, an action and one argument, with the
\* default proxyBase; the same with an argument named method, with a
\* proxyBase of the caller.
HandlerCalls ==
    { [query |-> W_github \o <<" ">> \o W_get_user \o <<" ">> \o W_user \o <<"=">> \o W_octocat,
       proxyBase |-> ProxyBaseDefault],
      [query |-> W_github \o <<" ">> \o W_get_user \o <<" ">> \o W_method \o <<"=">> \o W_evil,
       proxyBase |-> <<"http://gateway:9000">>] }

\* { method: action, ...args }: a spread key written after method replaces it.
McpParams(action, args) ==
    [k \in {W_method} \cup DOMAIN args |-> IF k \in DOMAIN args THEN args[k] ELSE action]

McpPayload(action, args) ==
    [jsonrpc |-> Str(<<"2.0">>), method |-> Str(W_invoke_method),
     params |-> McpParams(action, args), id |-> Str(<<"demo">>)]

\* `${proxyBase}/mcp/${tool}`
McpUrl(proxyBase, tool) == Str(proxyBase \o <<"/mcp/">> \o tool)

\* What the gateway can answer to the agent's call: a relayed JSON-RPC
\* result (a string, the empty string, null), a relayed JSON-RPC error, or
\* its own error response.
DemoId == Str(<<"demo">>)
GatewayReplies ==
    { [status |-> 200, data |-> [jsonrpc |-> Str(<<"2.0">>), id |-> DemoId, result |-> Str(<<"ok">>)]],
      [status |-> 200, data |-> [jsonrpc |-> Str(<<"2.0">>), id |-> DemoId, result |-> Str(<<"">>)]],
      [status |-> 200, data |-> [jsonrpc |-> Str(<<"2.0">>), id |-> DemoId, result |-> Null]],
      [status |-> 200, data |-> RpcError(DemoId)],
      [status |-> 500, data |-> ErrorJson(AxiosNetworkError.message, Undefined)] }

\* obj?.result of a response body
ResultOf(body) == IF "result" \in DOMAIN body THEN body.result ELSE Undefined

\* Variant: || in place of ??.
McpSnippetOr(mcpResult) ==
    IF Falsy(ResultOf(mcpResult)) THEN mcpResult ELSE ResultOf(mcpResult)

\* mcpResult?.result ?? mcpResult
McpSnippet(mcpResult) == Coalesce(ResultOf(mcpResult), mcpResult)

\* The length of text kept of each document of the preview.
PreviewChars == 30000
MinOf(a, b) == IF a < b THEN a ELSE b

\* A document the retriever returns: its text is a name and a length.
Doc(file, name, len) ==
    [metadata |-> file, pageContent |-> [name |-> name, len |-> len]]
DocLists ==
    { << Doc([file |-> Str(<<"a.md">>)], "a", 40000),
         Doc([file |-> Str(<<"b.md">>)], "b", 120),
         Doc([file |-> Str(<<"c.md">>)], "c", 5) >>,
      << Doc(Undefined, "d", 7) >> }

\* pageContent.slice(0, n)
SliceText(text, n) == [name |-> text.name, len |-> MinOf(text.len, n)]
\* d.metadata?.file
FileOf(d) == IF d.metadata = Undefined THEN Undefined ELSE d.metadata.file
\* Variant: every retrieved document goes into the preview.
RagContextPreviewAll(ragDocs) ==
    [i \in 1..Len(ragDocs) |->
        [file |-> FileOf(ragDocs[i]), text |-> SliceText(ragDocs[i].pageContent, PreviewChars)]]

\* ragDocs.slice(0, 2).map(...)
RagContextPreview(ragDocs) ==
    [i \in 1..MinOf(Len(ragDocs), 2) |->
        [file |-> FileOf(ragDocs[i]), text |-> SliceText(ragDocs[i].pageContent, PreviewChars)]]

RetrieverError == [message |-> Str(<<"retriever build failed">>)]
LookupError == [message |-> Str(<<"lookup failed">>)]

Next ==
    \/ \E r \in Requests, target \in TargetNames, body \in Bodies : Post(r, target, body)
    \/ \E r \in Awaiting : \E reply \in BackendReplies(LastSent(r).payload) :
          BackendRespond(r, reply)
    \/ \E r \in Requests : NetworkError(r)
    \/ \E r \in Requests : Timeout(r)

Spec == Init /\ [][Next]_vars

AggNext ==
    \/ GetMethods
    \/ \E i \in DOMAIN aggSent : \E reply \in GetMethodsReplies(aggSent[i].payload) :
          AggBackendRespond(i, reply)
    \/ \E i \in DOMAIN aggSent : AggNetworkError(i)
    \/ \E i \in DOMAIN aggSent : AggTimeout(i)
    \/ GetMethodsRespond

AggSpec == Init /\ [][AggNext]_vars

\* Both handlers of one process, each path parameter tried with a
\* well-formed envelope: which names reach a backend.
ProbeNames ==
    {"filesystem", "github", "atlassian", "gdrive", "playwright", "unknown", "constructor"}

RegistryNext ==
    \/ \E r \in Requests, target \in ProbeNames : Post(r, target, BaseBody)
    \/ \E r \in Awaiting : \E reply \in BackendReplies(LastSent(r).payload) :
          BackendRespond(r, reply)
    \/ GetMethods

RegistrySpec == Init /\ [][RegistryNext]_vars

\* The continuation of an await whose promise has resolved is a queued
\* microtask: it runs.
AggFairSpec == AggSpec /\ WF_vars(GetMethodsRespond)

\* The event loop runs a timer that is due: the deadline of a pending call
\* fires unless the call settles first.
FairSpec == Spec /\ \A r \in Requests : WF_vars(Timeout(r))

----------------------------------------------------------------------------
(* Properties.                                                             *)

RegisteredNames == {TARGETS[i].key : i \in 1..Len(TARGETS)}
Received == {r \in Requests : pc[r] # "idle"}

\* An envelope that is not a JSON-RPC request: jsonrpc missing or not "2.0",
\* method missing or not a string, id present but no string or number.
MalformedEnvelope(body) ==
    \/ body.jsonrpc # Str(<<"2.0">>)
    \/ body.method.t # "string"
    \/ body.id.t \notin {"undefined", "string", "number"}

HasError(body) == "error" \in DOMAIN body
NonEmptyString(v) ==
    /\ "t" \in DOMAIN v /\ v.t = "string"
    /\ Len(v.parts) > 0 /\ v.parts[1] # ""
MentionsUnknownTarget(body) ==
    /\ HasError(body) /\ NonEmptyString(body.error)
    /\ body.error.parts[1] = "Unknown target "

\* C1: every POST to a target name that is not registered is answered with
\* 404 and an error that says 'Unknown target', whatever the body is.
C1_UnregisteredTargetIs404 ==
    \A r \in Received :
        req[r].target \notin RegisteredNames
        => /\ pc[r] = "done"
           /\ res[r].statusCode = 404
           /\ MentionsUnknownTarget(res[r].body)

\* C2: a POST to a registered target whose body is not a valid JSON-RPC
\* request envelope is answered with 400.
C2_MalformedEnvelopeIs400 ==
    \A r \in Received :
        (req[r].target \in RegisteredNames /\ MalformedEnvelope(req[r].body))
        => (pc[r] = "done" /\ res[r].statusCode = 400)

\* C3: when the envelope fails validation nothing is sent to a backend for
\* that request, and the caller gets the failure as the answer.
C3_InvalidEnvelopeNeverSent ==
    \A r \in Received :
        MalformedEnvelope(req[r].body)
        => /\ sent[r] = <<>>
           /\ pc[r] = "done"
           /\ res[r].finished /\ HasError(res[r].body)

C3_Witness ==
    \E r \in Received :
        /\ req[r].target \in RegisteredNames
        /\ MalformedEnvelope(req[r].body)
        /\ res[r].finished

\* C4: when the backend answers a routed request with a success status, the
\* gateway answers 200 with the backend's body unchanged, also when that
\* body is a JSON-RPC error envelope.
C4_SuccessRelayedUnchanged ==
    \A r \in Requests :
        settled[r].status = "fulfilled"
        => /\ pc[r] = "done" /\ res[r].finished
           /\ res[r].statusCode = 200
           /\ res[r].body = settled[r].value.data

C4_Witness ==
    \E r \in Requests :
        /\ settled[r].status = "fulfilled"
        /\ HasError(settled[r].value.data)
        /\ res[r].finished

\* C5: when the backend call fails, the status is the backend's status if it
\* reported one and 500 otherwise, the body has a non-empty error message,
\* and details holds the backend's body when there is one.
C5_FailureStatusAndBody ==
    \A r \in Requests :
        settled[r].status = "rejected"
        => LET err == settled[r].reason
           IN  /\ res[r].finished
               /\ res[r].statusCode =
                     (IF err.response = Undefined THEN 500 ELSE err.response.status)
               /\ HasError(res[r].body) /\ NonEmptyString(res[r].body.error)
               /\ err.response # Undefined
                  => /\ "details" \in DOMAIN res[r].body
                     /\ res[r].body.details = err.response.data

C5_Witness ==
    \E r \in Requests :
        /\ settled[r].status = "rejected"
        /\ settled[r].reason.response # Undefined
        /\ settled[r].reason.response.status = 404
        /\ res[r].finished

\* C6: at most one request is sent to the backend for each inbound POST, and
\* when that attempt fails its failure is what the caller is answered.
C6_NoRetry ==
    \A r \in Requests :
        /\ Len(sent[r]) <= 1
        /\ settled[r].status = "rejected"
           => /\ pc[r] = "done" /\ res[r].finished
              /\ HasError(res[r].body)
              /\ res[r].body.error = settled[r].reason.message

C6_Witness ==
    \E r \in Requests :
        /\ Len(sent[r]) = 1
        /\ settled[r] = Rejected(AxiosNetworkError)
        /\ pc[r] = "done"

\* C7: every inbound POST is eventually answered, also when the backend
\* never answers: the deadline of the call ends the wait.
C7_EventuallyAnswered ==
    \A r \in Requests : (pc[r] # "idle") ~> (pc[r] = "done" /\ res[r].finished)

C7_Witness ==
    \E r \in Requests :
        /\ settled[r] = Rejected(AxiosTimeoutError(RouteTimeoutMs))
        /\ res[r].finished /\ res[r].statusCode = 500

aggregated == aggRes.body.aggregated
IsPair(v) == "t" \in DOMAIN v /\ v.t = "array" /\ Len(v.elems) = 2

\* C8: the aggregated array has one entry per registered target and entry i
\* is the one of the i-th target, in whatever order the calls settled.
C8_OneEntryPerTargetInOrder ==
    aggPc = "done"
    => /\ Len(aggregated) = Len(TARGETS)
       /\ \A i \in 1..Len(TARGETS) :
             \/ /\ delivered[i].status = "fulfilled"
                /\ IsPair(aggregated[i])
                /\ aggregated[i].elems[1] = Str(<<TARGETS[i].key>>)
             \/ /\ delivered[i].status = "rejected"
                /\ aggregated[i] = delivered[i].reason.message

C8_Witness ==
    /\ aggPc = "done"
    /\ overtaken
    /\ \E i, j \in 1..Len(TARGETS) :
          /\ i < j
          /\ delivered[i].status = "rejected"
          /\ delivered[j].status = "fulfilled"

\* C9: each target's outcome is kept on its own: the entry of a target that
\* succeeded holds the response its backend gave, the entry of a target that
\* failed holds the message of its failure, a string.
C9_IndependentOutcomes ==
    aggPc = "done"
    => \A i \in 1..Len(TARGETS) :
          /\ delivered[i].status # "pending"
          /\ delivered[i].status = "fulfilled"
             => /\ IsPair(aggregated[i])
                /\ aggregated[i].elems[2] = delivered[i].value.elems[2]
                /\ "jsonrpc" \in DOMAIN aggregated[i].elems[2]
          /\ delivered[i].status = "rejected"
             => /\ NonEmptyString(aggregated[i])
                /\ aggregated[i] = delivered[i].reason.message

C9_Witness ==
    /\ aggPc = "done"
    /\ Cardinality({i \in 1..Len(TARGETS) : delivered[i].status = "rejected"}) = 1

\* C10: GET /mcp/get_methods is answered with 200 for every combination of
\* successes and failures, also when every target fails.
C10_AggregationAlways200 ==
    aggPc = "done" => (aggRes.finished /\ aggRes.statusCode = 200)

C10_Witness ==
    /\ aggPc = "done"
    /\ \A i \in 1..Len(TARGETS) : delivered[i].status = "rejected"


\* C11: every entry of the aggregated array is a pair [targetName, payload],
\* for a target that failed as for one that succeeded.
C11_EveryEntryIsPair ==
    aggPc = "done"
    => \A i \in 1..Len(TARGETS) :
          /\ IsPair(aggregated[i])
          /\ aggregated[i].elems[1] = Str(<<TARGETS[i].key>>)

AllDelivered ==
    /\ Len(delivered) = Len(TARGETS)
    /\ \A i \in 1..Len(delivered) : delivered[i].status # "pending"

\* C12: the aggregation is not answered before every per-target call has
\* settled, and it is answered once all of them have.
C12_AnsweredWhenAllSettled ==
    /\ [](aggRes.finished => AllDelivered)
    /\ (aggPc = "awaiting" /\ AllDelivered) ~> aggRes.finished

C12_Witness ==
    /\ aggRes.finished
    /\ AllDelivered
    /\ overtaken

\* C13: the get_methods call of every registered target is issued before the
\* gateway waits on any of them, one call per target, with the payload
\* {jsonrpc: '2.0', method: 'get_methods', id: 'gm-<target>'}.
C13_AllCallsIssuedTogether ==
    aggPc # "idle"
    => /\ Len(aggSent) = Len(TARGETS)
       /\ \A i \in 1..Len(TARGETS) :
             /\ aggSent[i].url = TARGETS[i].url
             /\ aggSent[i].payload =
                   [jsonrpc |-> Str(<<"2.0">>), method |-> Str(<<"get_methods">>),
                    id |-> Str(<<"gm-", TARGETS[i].key>>)]

C13_Witness ==
    /\ aggPc = "awaiting"
    /\ Len(aggSent) = Len(TARGETS)
    /\ \A i \in 1..Len(delivered) : delivered[i].status = "pending"


FourTargets == {"filesystem", "github", "atlassian", "gdrive"}
FiveTargets == FourTargets \cup {"playwright"}
Routed == {r \in Requests : sent[r] # <<>>}
QueriedIds == {aggSent[i].payload.id : i \in 1..Len(aggSent)}

TokenStarts(s) ==
    {i \in 1..Len(s) : ~IsSpace(s[i]) /\ (i = 1 \/ IsSpace(s[i - 1]))}
TokenAt(s, i) ==
    LET last == CHOOSE j \in i..Len(s) :
                   /\ \A k \in i..j : ~IsSpace(s[k])
                   /\ (j = Len(s) \/ IsSpace(s[j + 1]))
    IN  SubSeq(s, i, last)
NumTokens(s) == Cardinality(TokenStarts(s))
Token(s, n) ==
    TokenAt(s, CHOOSE i \in TokenStarts(s) :
                   Cardinality({j \in TokenStarts(s) : j < i}) = n - 1)

FourToolNames == {W_filesystem, W_github, W_atlassian, W_gdrive}

\* C15: tool is the first whitespace-separated token when that token is one
\* of filesystem, github, atlassian, gdrive, and filesystem otherwise; action
\* is the second token, or get_methods when there is none.
C15_ToolAndAction ==
    parsedQuery # <<>>
    => /\ parsedQuery[1].tool =
             (IF NumTokens(query) >= 1 /\ Token(query, 1) \in FourToolNames
              THEN Token(query, 1) ELSE W_filesystem)
       /\ parsedQuery[1].action =
             (IF NumTokens(query) >= 2 THEN Token(query, 2) ELSE W_get_methods)

C15_Witness ==
    /\ parsedQuery # <<>>
    /\ Len(query) > 0 /\ IsSpace(query[1])
    /\ parsedQuery[1].tool = W_github
    /\ parsedQuery[1].action = <<"a">>

\* The text of a token before its first '=' (all of it when it has none)
\* and the text after its first '=' (empty when it has none).
EqualsAt(t) == {i \in 1..Len(t) : t[i] = "="}
FirstEquals(t) == CHOOSE i \in EqualsAt(t) : \A j \in EqualsAt(t) : i <= j
KeyOf(t) == IF EqualsAt(t) = {} THEN t ELSE SubSeq(t, 1, FirstEquals(t) - 1)
ValueOf(t) == IF EqualsAt(t) = {} THEN <<>> ELSE SubSeq(t, FirstEquals(t) + 1, Len(t))
ArgTokens(s) == {n \in 3..NumTokens(s) : KeyOf(Token(s, n)) # <<>>}

\* C16: every token after the second becomes an args entry, split on its
\* first '=' only: the key is the text before it, the value everything after
\* it; a token without '=' gets the empty value, one with an empty key is
\* dropped.  (Of tokens with the same key the last one is looked at.)
C16_ArgsSplitOnFirstEquals ==
    parsedQuery # <<>>
    => LET args == parsedQuery[1].args
       IN  /\ DOMAIN args = {KeyOf(Token(query, n)) : n \in ArgTokens(query)}
           /\ \A n \in ArgTokens(query) :
                 (\A m \in ArgTokens(query) :
                     KeyOf(Token(query, m)) = KeyOf(Token(query, n)) => m <= n)
                 => args[KeyOf(Token(query, n))] = ValueOf(Token(query, n))

\* C17: parseQuery returns a result for every string, the empty and the
\* whitespace-only ones included: a tool among the four names, an action and
\* args without an empty key; for the empty string these are filesystem,
\* get_methods and no args.
C17_ParseQueryTotal ==
    parsedQuery # <<>>
    => /\ parsedQuery[1].tool \in FourToolNames
       /\ parsedQuery[1].action # <<>>
       /\ <<>> \notin DOMAIN parsedQuery[1].args
       /\ query = <<>>
          => parsedQuery[1] =
                [tool |-> W_filesystem, action |-> W_get_methods, args |-> <<>>]

C17_Witness ==
    /\ parsedQuery # <<>>
    /\ query = <<>>


-----------------------------------------------------------------------------
(* handleQuery                                                             *)

\* Variant: getRetriever without the cached promise.
getRetrieverUncached(promise, calls) ==
    [promise |-> Pending, calls |-> calls + 1]

\* Variant: getRetriever that builds again after a failed build.
getRetrieverRetrying(promise, calls) ==
    IF promise = Null \/ promise.status = "rejected"
    THEN [promise |-> Pending, calls |-> calls + 1]
    ELSE [promise |-> promise, calls |-> calls]

\* getRetriever: the first call invokes buildRetriever and keeps its promise,
\* settled or not; every call returns the promise kept.  calls counts the
\* invocations of buildRetriever.
getRetriever(promise, calls) ==
    IF promise = Null
    THEN [promise |-> Pending, calls |-> calls + 1]
    ELSE [promise |-> promise, calls |-> calls]

\* Lines 27-30: parse, build the JSON-RPC call, post it (no config object,
\* so no deadline) and wait.
HandleQueryCall(call) ==
    LET p == parseQuery(call.query)
    IN  [pc |-> "awaitPost", query |-> call.query, proxyBase |-> call.proxyBase,
         parsed |-> p,
         posts |-> << [url |-> McpUrl(call.proxyBase, p.tool),
                       payload |-> McpPayload(p.action, p.args)] >>,
         gateway |-> Pending, retriever |-> Undefined, lookups |-> <<>>,
         ragDocs |-> <<>>,
         outcome |-> Pending]

HandleQuery(h, call) ==
    /\ agent[h].pc = "idle"
    /\ agent' = [agent EXCEPT ![h] = HandleQueryCall(call)]
    /\ UNCHANGED <<retrieverPromise, buildCalls, parserVars, gatewayVars, frontVars>>

\* The gateway answers.  A 2xx answer resumes the function, which calls
\* getRetriever.  Any other status makes axios.post reject, and with no
\* try/catch around it the function rejects with that error.
GatewayRespond(h, reply) ==
    /\ agent[h].pc = "awaitPost"
    /\ IF ValidateStatus(reply.status)
       THEN /\ agent' = [agent EXCEPT ![h].pc = "awaitRetriever",
                                      ![h].gateway = Fulfilled(reply)]
            /\ retrieverPromise' = getRetriever(retrieverPromise, buildCalls).promise
            /\ buildCalls' = getRetriever(retrieverPromise, buildCalls).calls
       ELSE /\ agent' = [agent EXCEPT ![h].pc = "threw",
                                      ![h].gateway = Rejected(AxiosStatusError(reply)),
                                      ![h].outcome = Rejected(AxiosStatusError(reply))]
            /\ UNCHANGED <<retrieverPromise, buildCalls>>
    /\ UNCHANGED <<parserVars, gatewayVars, frontVars>>

\* The gateway cannot be reached: axios.post rejects.
GatewayUnreachable(h) ==
    /\ agent[h].pc = "awaitPost"
    /\ agent' = [agent EXCEPT ![h].pc = "threw",
                              ![h].gateway = Rejected(AxiosNetworkError),
                              ![h].outcome = Rejected(AxiosNetworkError)]
    /\ UNCHANGED <<retrieverPromise, buildCalls, parserVars, gatewayVars, frontVars>>

\* buildRetriever finishes, with a retriever or with an error.
BuildSucceeds ==
    /\ retrieverPromise = Pending
    /\ retrieverPromise' = Fulfilled([build |-> buildCalls])
    /\ UNCHANGED <<agent, buildCalls, parserVars, gatewayVars, frontVars>>

BuildFails ==
    /\ retrieverPromise = Pending
    /\ retrieverPromise' = Rejected(RetrieverError)
    /\ UNCHANGED <<agent, buildCalls, parserVars, gatewayVars, frontVars>>

\* Line 32 resumes with the retriever; line 33 asks it for the documents of
\* the original query.
RetrieverReady(h) ==
    /\ agent[h].pc = "awaitRetriever"
    /\ retrieverPromise # Null /\ retrieverPromise.status = "fulfilled"
    /\ agent' = [agent EXCEPT ![h].pc = "awaitDocs",
                              ![h].retriever = retrieverPromise.value,
                              ![h].lookups = Append(@, agent[h].query)]
    /\ UNCHANGED <<retrieverPromise, buildCalls, parserVars, gatewayVars, frontVars>>

\* Line 32 resumes with the error of buildRetriever.
RetrieverFailed(h) ==
    /\ agent[h].pc = "awaitRetriever"
    /\ retrieverPromise # Null /\ retrieverPromise.status = "rejected"
    /\ agent' = [agent EXCEPT ![h].pc = "threw",
                              ![h].outcome = Rejected(retrieverPromise.reason)]
    /\ UNCHANGED <<retrieverPromise, buildCalls, parserVars, gatewayVars, frontVars>>

\* Lines 33-39: the documents arrive and the result object is returned.
DocsReturned(h, ragDocs) ==
    /\ agent[h].pc = "awaitDocs"
    /\ agent' = [agent EXCEPT ![h].pc = "returned",
                              ![h].ragDocs = ragDocs,
                              ![h].outcome = Fulfilled(
                                  [parsed |-> agent[h].parsed,
                                   mcpSnippet |-> McpSnippet(agent[h].gateway.value.data),
                                   ragContextPreview |-> RagContextPreview(ragDocs)])]
    /\ UNCHANGED <<retrieverPromise, buildCalls, parserVars, gatewayVars, frontVars>>

\* getRelevantDocuments rejects.
DocsFail(h) ==
    /\ agent[h].pc = "awaitDocs"
    /\ agent' = [agent EXCEPT ![h].pc = "threw",
                              ![h].outcome = Rejected(LookupError)]
    /\ UNCHANGED <<retrieverPromise, buildCalls, parserVars, gatewayVars, frontVars>>

HandleNext ==
    \/ \E h \in Handlers, call \in HandlerCalls : HandleQuery(h, call)
    \/ \E h \in Handlers, reply \in GatewayReplies : GatewayRespond(h, reply)
    \/ \E h \in Handlers : GatewayUnreachable(h)
    \/ BuildSucceeds
    \/ BuildFails
    \/ \E h \in Handlers : RetrieverReady(h)
    \/ \E h \in Handlers : RetrieverFailed(h)
    \/ \E h \in Handlers, ragDocs \in DocLists : DocsReturned(h, ragDocs)
    \/ \E h \in Handlers : DocsFail(h)

HandleSpec == Init /\ [][HandleNext]_vars

Called == {h \in Handlers : agent[h].pc # "idle"}
Returned == {h \in Handlers : agent[h].pc = "returned"}
GatewayFailed == {h \in Called : agent[h].gateway.status = "rejected"}

\* C18: a handleQuery whose gateway call failed does not fail: it goes on to
\* the retrieval lookup, and what it returns holds the gateway failure as an
\* error payload and the preview of the lookup.
C18_GatewayFailureCaptured ==
    \A h \in GatewayFailed :
        /\ agent[h].pc # "threw"
        /\ agent[h].outcome.status # "rejected"
        /\ agent[h].pc = "returned" => Len(agent[h].lookups) = 1

\* C19: every handleQuery posts exactly one call, to {proxyBase}/mcp/{tool},
\* with method invoke_method and id demo, whose params have the parsed
\* action as method and every parsed args key with its value.
C19_OneInvokeMethodCall ==
    \A h \in Called :
        LET p == parseQuery(agent[h].query)
            post == agent[h].posts[1]
        IN  /\ Len(agent[h].posts) = 1
            /\ post.url = Str(agent[h].proxyBase \o <<"/mcp/">> \o p.tool)
            /\ post.payload.jsonrpc = Str(<<"2.0">>)
            /\ post.payload.method = Str(W_invoke_method)
            /\ post.payload.id = Str(<<"demo">>)
            /\ post.payload.params[W_method] = p.action
            /\ \A k \in DOMAIN p.args : post.payload.params[k] = p.args[k]

\* C20: the mcpSnippet handleQuery returns is the result field of the body
\* the gateway answered with, and the whole body when that field is absent
\* or null.
C20_SnippetIsResultOrBody ==
    \A h \in Returned :
        LET body == agent[h].gateway.value.data
            snippet == agent[h].outcome.value.mcpSnippet
        IN  IF "result" \in DOMAIN body /\ body.result # Null
            THEN snippet = body.result
            ELSE snippet = body

C20_Witness ==
    \E h, g \in Returned :
        /\ "result" \notin DOMAIN agent[h].gateway.value.data
        /\ agent[h].outcome.value.mcpSnippet = agent[h].gateway.value.data
        /\ agent[g].outcome.value.mcpSnippet = Str(<<"">>)


\* C21: the retriever is asked once, with the query string as it was given
\* to handleQuery; ragContextPreview holds the first two retrieved documents
\* in retrieval order (all of them when fewer), each with its file and with
\* the first 30000 characters of its text at most.
C21_PreviewOfOriginalQuery ==
    /\ \A h \in Called :
          agent[h].pc \in {"awaitDocs", "returned"} => agent[h].lookups = <<agent[h].query>>
    /\ \A h \in Returned :
          LET docs == agent[h].ragDocs
              preview == agent[h].outcome.value.ragContextPreview
          IN  /\ Len(preview) = (IF Len(docs) < 2 THEN Len(docs) ELSE 2)
              /\ \A i \in 1..Len(preview) :
                    /\ preview[i].text.name = docs[i].pageContent.name
                    /\ preview[i].text.len <= 30000
                    /\ preview[i].text.len =
                          (IF docs[i].pageContent.len <= 30000
                           THEN docs[i].pageContent.len ELSE 30000)
                    /\ docs[i].metadata # Undefined
                       => preview[i].file = docs[i].metadata.file

C21_Witness ==
    \E h \in Returned :
        /\ Len(agent[h].ragDocs) = 3
        /\ Len(agent[h].outcome.value.ragContextPreview) = 2
        /\ agent[h].ragDocs[1].pageContent.len > 30000
        /\ agent[h].outcome.value.ragContextPreview[1].text.len = 30000


ReachedRetrieval == {h \in Called : agent[h].gateway.status = "fulfilled"}
UsedRetriever == {h \in Called : agent[h].retriever # Undefined}

\* C22: whatever the calls of handleQuery and their interleaving,
\* buildRetriever is invoked at most once, not before a call has come to its
\* retrieval step, and every call that looks documents up does so with the
\* retriever of that one build.
C22_RetrieverBuiltOnce ==
    /\ buildCalls <= 1
    /\ buildCalls = 1 => ReachedRetrieval # {}
    /\ \A h \in UsedRetriever : agent[h].retriever = [build |-> 1]
    /\ \A h \in Called : agent[h].pc \in {"awaitDocs", "returned"} => h \in UsedRetriever

\* Two calls wait for the one build in progress, and later both have used it.
C22_Witness ==
    \E h, g \in UsedRetriever :
        /\ h # g
        /\ agent[h].pc = "returned"
        /\ agent[g].pc = "awaitDocs"
        /\ buildCalls = 1

\* C28: once buildRetriever has failed the kept promise stays rejected and
\* buildRetriever is not invoked again; no call ever gets a retriever, and a
\* call that comes to its retrieval step fails with the error of the build.
C28_FailedBuildIsPermanent ==
    /\ [](retrieverPromise = Rejected(RetrieverError)
          => /\ buildCalls = 1
             /\ UsedRetriever = {}
             /\ \A h \in ReachedRetrieval :
                   agent[h].pc \in {"awaitRetriever", "threw"}
                   /\ (agent[h].pc = "threw" => agent[h].outcome = Rejected(RetrieverError)))
    /\ [][retrieverPromise = Rejected(RetrieverError)
          => /\ retrieverPromise' = retrieverPromise
             /\ buildCalls' = buildCalls]_vars

C28_Witness ==
    /\ retrieverPromise = Rejected(RetrieverError)
    /\ \E h, g \in ReachedRetrieval :
          /\ h # g
          /\ agent[h].outcome = Rejected(RetrieverError)
          /\ agent[g].outcome = Rejected(RetrieverError)


-----------------------------------------------------------------------------
(* The query runner (run.ts).                                              *)

W_list == <<"l", "i", "s", "t">>
W_files == <<"f", "i", "l", "e", "s">>
DefaultQuery == W_filesystem \o <<" ">> \o W_list \o <<" ">> \o W_files

\* The arguments after the script name: none, three words, one word.
Argvs ==
    { <<>>,
      <<W_github, W_get_user, W_user \o <<"=">> \o W_octocat>>,
      <<W_gdrive>> }

\* words.join(' ')
RECURSIVE JoinWords(_)
JoinWords(words) ==
    IF words = <<>> THEN <<>>
    ELSE IF Len(words) = 1 THEN words[1]
    ELSE words[1] \o <<" ">> \o JoinWords(Tail(words))

\* process.argv.slice(2).join(' ') || 'filesystem list files'
CliQuery(argv) == IF JoinWords(argv) = <<>> THEN DefaultQuery ELSE JoinWords(argv)

\* The exit code of a Node process whose event loop has drained:
\* process.exitCode if something set it, else 0.
NodeExitCode(exitCode) == IF exitCode = Undefined THEN 0 ELSE exitCode

\* The module body: the query is taken from the command line and
\* handleQuery is called with it and the default proxyBase.
RunMain(argv) ==
    /\ cli.pc = "start"
    /\ agent[1].pc = "idle"
    /\ cli' = [cli EXCEPT !.pc = "running"]
    /\ agent' = [agent EXCEPT ![1] =
                    HandleQueryCall([query |-> CliQuery(argv), proxyBase |-> ProxyBaseDefault])]
    /\ UNCHANGED <<retrieverPromise, buildCalls, parserVars, gatewayVars, ui, build>>

\* .then(r => console.log(JSON.stringify(r, null, 2)))
RunThen ==
    /\ cli.pc = "running"
    /\ agent[1].pc = "returned"
    /\ cli' = [cli EXCEPT !.pc = "settled", !.stdout = Append(@, agent[1].outcome.value)]
    /\ UNCHANGED <<agentVars, gatewayVars, ui, build>>

\* .catch(console.error): the rejection is handled, the error is printed,
\* process.exitCode is left alone.
RunCatch ==
    /\ cli.pc = "running"
    /\ agent[1].pc = "threw"
    /\ cli' = [cli EXCEPT !.pc = "settled", !.stderr = Append(@, agent[1].outcome.reason)]
    /\ UNCHANGED <<agentVars, gatewayVars, ui, build>>

\* Nothing is left to run: the process ends.
ProcessExit ==
    /\ cli.pc = "settled"
    /\ cli' = [cli EXCEPT !.pc = "exited", !.exitCode = NodeExitCode(cli.exitCode)]
    /\ UNCHANGED <<agentVars, gatewayVars, ui, build>>

RunNext ==
    \/ \E argv \in Argvs : RunMain(argv)
    \/ \E reply \in GatewayReplies : GatewayRespond(1, reply)
    \/ GatewayUnreachable(1)
    \/ BuildSucceeds
    \/ BuildFails
    \/ RetrieverReady(1)
    \/ RetrieverFailed(1)
    \/ \E ragDocs \in DocLists : DocsReturned(1, ragDocs)
    \/ DocsFail(1)
    \/ RunThen
    \/ RunCatch
    \/ ProcessExit

RunSpec == Init /\ [][RunNext]_vars

\* C23: the query runner ends with exit code 0 and the result on the output
\* stream when handleQuery succeeds, and with an exit code other than 0 and
\* the error on the error stream when handleQuery fails.
C23_ExitCodeTellsFailure ==
    cli.pc = "exited"
    => IF agent[1].pc = "returned"
       THEN cli.exitCode = 0 /\ cli.stdout = <<agent[1].outcome.value>> /\ cli.stderr = <<>>
       ELSE cli.exitCode # 0 /\ cli.stderr = <<agent[1].outcome.reason>> /\ cli.stdout = <<>>


-----------------------------------------------------------------------------
(* The UI query endpoints: createApp POST /api/query and createServer      *)
(* POST /query.                                                            *)

\* The request bodies tried: none, one without query, and one for each of
\* null, the empty string, blanks, a word, and a number as query.
UiBodies ==
    { Undefined, [other |-> Num(1)] }
    \cup { [query |-> q] : q \in { Null, Str(<<>>), Str(<<" ", " ">>), Str(<<"h", "i">>), Num(5) } }

\* const { query } = req.body || {}
QueryField(body) ==
    IF body = Undefined THEN Undefined
    ELSE IF "query" \in DOMAIN body THEN body.query
    ELSE Undefined

\* !v of JavaScript
JsNot(v) == Falsy(v) \/ v = Num(0)

\* Variant: both endpoints test the query with !query alone.
NoQueryFalsyOnly(endpoint, q) == JsNot(q)

\* The test that answers 400: !query in createApp,
\* typeof query !== 'string' || !query.trim() in createServer.
NoQuery(endpoint, q) ==
    IF endpoint = "createApp" THEN JsNot(q)
    ELSE q.t # "string" \/ Trim(q.parts) = <<>>

QueryRequired ==
    ResJson(ResStatus(NewRes, 400), [error |-> Str(<<"query required">>)])

\* What the handler may resolve with, and what it may reject with: an Error
\* with a message, an Error with the empty message and, for a handler given
\* to createServer, a thrown undefined.
UiResults == { [ok |-> Str(<<"true">>)], [parsed |-> Str(<<"p">>), mcpSnippet |-> Null] }
UiErrors(endpoint) ==
    { [message |-> Str(<<"boom">>)], [message |-> Str(<<>>)] }
    \cup (IF endpoint = "createServer" THEN {Undefined} ELSE {})

\* err.message in createApp; err?.message || 'handler error' in createServer
UiErrorMessage(endpoint, err) ==
    IF endpoint = "createApp" THEN err.message
    ELSE IF err = Undefined THEN Str(<<"handler error">>)
    ELSE IF JsNot(err.message) THEN Str(<<"handler error">>)
    ELSE err.message

\* The handler of either endpoint up to its await.
UiPost(u, endpoint, body) ==
    /\ ui[u].pc = "idle"
    /\ LET q == QueryField(body)
       IN  IF NoQuery(endpoint, q)
           THEN ui' = [ui EXCEPT ![u] =
                   [pc |-> "done", endpoint |-> endpoint, body |-> body, calls |-> <<>>,
                    handler |-> Pending, res |-> QueryRequired]]
           ELSE ui' = [ui EXCEPT ![u] =
                   [pc |-> "awaiting", endpoint |-> endpoint, body |-> body, calls |-> <<q>>,
                    handler |-> Pending, res |-> NewRes]]
    /\ UNCHANGED <<agentVars, gatewayVars, cli, build>>

\* The handler resolves: res.json(result).
UiHandlerResolves(u, result) ==
    /\ ui[u].pc = "awaiting"
    /\ ui' = [ui EXCEPT ![u].pc = "done",
                        ![u].handler = Fulfilled(result),
                        ![u].res = ResJson(ui[u].res, result)]
    /\ UNCHANGED <<agentVars, gatewayVars, cli, build>>

\* The handler rejects: the catch block answers 500.
UiHandlerRejects(u, err) ==
    /\ ui[u].pc = "awaiting"
    /\ ui' = [ui EXCEPT ![u].pc = "done",
                        ![u].handler = Rejected(err),
                        ![u].res = ResJson(ResStatus(ui[u].res, 500),
                                           ErrorJson(UiErrorMessage(ui[u].endpoint, err), Undefined))]
    /\ UNCHANGED <<agentVars, gatewayVars, cli, build>>

UiAwaiting == {u \in UiRequests : ui[u].pc = "awaiting"}

UiNext ==
    \/ \E u \in UiRequests, endpoint \in {"createApp", "createServer"}, body \in UiBodies :
          UiPost(u, endpoint, body)
    \/ \E u \in UiRequests, result \in UiResults : UiHandlerResolves(u, result)
    \/ \E u \in UiAwaiting : \E err \in UiErrors(ui[u].endpoint) : UiHandlerRejects(u, err)

UiSpec == Init /\ [][UiNext]_vars

UiReceived == {u \in UiRequests : ui[u].pc # "idle"}
AllBlank(parts) == \A i \in 1..Len(parts) : parts[i] \in {" ", "\t", "\n"}
\* No usable query: missing (absent or null) or empty, and for createServer
\* also anything that is not a string or is made of whitespace only.
Unusable(endpoint, q) ==
    \/ q \in {Undefined, Null, Str(<<>>)}
    \/ endpoint = "createServer" /\ (q.t # "string" \/ AllBlank(q.parts))

-----------------------------------------------------------------------------
(* buildRetriever and the retriever it returns.                            *)

\* A file system is a set of files; a file has a path (a sequence of names),
\* a text of len characters without separators, and may be unreadable.
\* Directories are the proper prefixes of the paths.
File(path, len, readable) == [path |-> path, len |-> len, readable |-> readable]
KbDirDefault == <<"mock_knowledge_base">>
FileSystems ==
    { { File(KbDirDefault \o <<"a.md">>, 1500, TRUE),
        File(KbDirDefault \o <<"sub", "b.md">>, 3000, TRUE),
        File(KbDirDefault \o <<"sub", "c.md">>, 0, TRUE),
        File(<<"other", "x.md">>, 900, TRUE) },
      { File(KbDirDefault \o <<"a.md">>, 1500, TRUE),
        File(KbDirDefault \o <<"sub", "b.md">>, 3000, FALSE),
        File(KbDirDefault \o <<"sub", "c.md">>, 0, TRUE),
        File(<<"other", "x.md">>, 900, TRUE) },
      { File(KbDirDefault \o <<"a.md">>, 1801, TRUE),
        File(KbDirDefault \o <<"b.md">>, 2600, TRUE),
        File(KbDirDefault \o <<"sub", "d.md">>, 1000, TRUE),
        File(<<"other", "x.md">>, 1001, TRUE) },
      { File(KbDirDefault \o <<"a.md">>, 2000, TRUE),
        File(KbDirDefault \o <<"sub", "e.md">>, 900, TRUE),
        File(<<"other", "x.md">>, 10, FALSE) } }
KbDirs == { KbDirDefault, KbDirDefault \o <<"sub">>, <<"other">>, <<"missing">> }

IsPrefix(p, q) == Len(p) < Len(q) /\ SubSeq(q, 1, Len(p)) = p
IsDirectory(fsys, p) == \E f \in fsys : IsPrefix(p, f.path)
FileAt(fsys, p) == CHOOSE f \in fsys : f.path = p

RECURSIVE SetToSeq(_)
SetToSeq(S) ==
    IF S = {} THEN <<>>
    ELSE LET x == CHOOSE y \in S : TRUE IN <<x>> \o SetToSeq(S \ {x})

\* fs.readdirSync(p): the names in directory p, in the order the system
\* lists them.
Readdir(fsys, p) == SetToSeq({f.path[Len(p) + 1] : f \in {g \in fsys : IsPrefix(p, g.path)}})

\* walk(p): depth first, directories entered where they are met.
RECURSIVE WalkNames(_, _, _)
WalkNames(fsys, p, names) ==
    IF names = <<>> THEN <<>>
    ELSE LET full == p \o <<names[1]>>
         IN  (IF IsDirectory(fsys, full)
              THEN WalkNames(fsys, full, Readdir(fsys, full))
              ELSE <<full>>)
             \o WalkNames(fsys, p, Tail(names))
Walk(fsys, p) == WalkNames(fsys, p, Readdir(fsys, p))

ChunkSize == 1000
ChunkOverlap == 200
RetrieverK == 5

\* splitter.splitText on a text without separators: windows of chunkSize
\* characters, each starting chunkOverlap before the end of the one before;
\* the empty text gives no chunk.
NumChunks(len) ==
    IF len = 0 THEN 0
    ELSE IF len <= ChunkSize THEN 1
    ELSE ((len - ChunkOverlap - 1) \div (ChunkSize - ChunkOverlap)) + 1
SplitText(len) ==
    [i \in 1..NumChunks(len) |->
        [from |-> (i - 1) * (ChunkSize - ChunkOverlap),
         to |-> MinOf(len, (i - 1) * (ChunkSize - ChunkOverlap) + ChunkSize)]]

\* splits.map((t, i) => ({ pageContent: t, metadata: { file, i } }))
DocsOf(file) ==
    [i \in 1..NumChunks(file.len) |->
        [pageContent |-> SplitText(file.len)[i], metadata |-> [file |-> file.path, i |-> i - 1]]]

ENOENT(p) == [message |-> Str(<<"ENOENT: no such file or directory">>), path |-> p]
EACCES(p) == [message |-> Str(<<"EACCES: permission denied">>), path |-> p]
EmbeddingError == [message |-> Str(<<"embedding request failed">>)]

\* Variant: a file that cannot be read counts as an empty one.
ReadFileSyncLenient(fsys, p) ==
    IF FileAt(fsys, p).readable THEN Fulfilled(FileAt(fsys, p))
    ELSE Fulfilled(File(p, 0, TRUE))

\* fs.readFileSync(file, 'utf8'): the text, or the error thrown.
ReadFileSync(fsys, p) ==
    IF FileAt(fsys, p).readable THEN Fulfilled(FileAt(fsys, p))
    ELSE Rejected(EACCES(p))

\* The head of the loop over files for index b.i: past the last file the
\* store is built from the documents; else the file is read, which throws
\* or leads to the await of splitText.
LoopHead(b) ==
    IF b.i > Len(b.files) THEN [b EXCEPT !.pc = "embedding"]
    ELSE IF ReadFileSync(b.fsys, b.files[b.i]).status = "rejected"
    THEN [b EXCEPT !.pc = "failed",
                   !.outcome = Rejected(ReadFileSync(b.fsys, b.files[b.i]).reason)]
    ELSE [b EXCEPT !.pc = "splitting"]

\* buildRetriever(kbDir) up to its first await.
BuildRetriever(fsys, kbDir) ==
    /\ build.pc = "idle"
    /\ build' =
          IF ~IsDirectory(fsys, kbDir)
          THEN [pc |-> "failed", fsys |-> fsys, kbDir |-> kbDir, files |-> <<>>, i |-> 1,
                docs |-> <<>>, outcome |-> Rejected(ENOENT(kbDir)),
                asked |-> <<>>, retrieved |-> <<>>]
          ELSE LoopHead([pc |-> "walked", fsys |-> fsys, kbDir |-> kbDir,
                         files |-> Walk(fsys, kbDir), i |-> 1, docs |-> <<>>,
                         outcome |-> Pending, asked |-> <<>>, retrieved |-> <<>>])
    /\ UNCHANGED <<agentVars, gatewayVars, cli, ui>>

\* splitText resolves: the chunks of the file join docs, and the loop goes
\* on to the next file.
SplitDone ==
    /\ build.pc = "splitting"
    /\ build' = LoopHead([build EXCEPT
                    !.docs = @ \o DocsOf(ReadFileSync(build.fsys, build.files[build.i]).value),
                    !.i = @ + 1])
    /\ UNCHANGED <<agentVars, gatewayVars, cli, ui>>

\* MemoryVectorStore.fromDocuments resolves; store.asRetriever(5).
EmbedDone ==
    /\ build.pc = "embedding"
    /\ build' = [build EXCEPT !.pc = "ready",
                              !.outcome = Fulfilled([k |-> RetrieverK, store |-> build.docs])]
    /\ UNCHANGED <<agentVars, gatewayVars, cli, ui>>

\* MemoryVectorStore.fromDocuments rejects.
EmbedFail ==
    /\ build.pc = "embedding"
    /\ build' = [build EXCEPT !.pc = "failed", !.outcome = Rejected(EmbeddingError)]
    /\ UNCHANGED <<agentVars, gatewayVars, cli, ui>>

\* The stored documents by decreasing similarity to a query: the order
\* depends on the embeddings, so every rotation of the store is tried.
Ranked(store, shift) ==
    [i \in 1..Len(store) |-> store[((i - 1 + shift) % Len(store)) + 1]]

\* Variant: the search returns every stored document.
SimilaritySearchAll(ranked, k) == ranked

\* The first k documents of the ranking.
SimilaritySearch(ranked, k) == SubSeq(ranked, 1, MinOf(k, Len(ranked)))

\* retriever.getRelevantDocuments(q)
GetRelevantDocuments(q, shift) ==
    /\ build.pc = "ready"
    /\ build' = [build EXCEPT
          !.asked = q,
          !.retrieved = SimilaritySearch(Ranked(build.outcome.value.store, shift),
                                         build.outcome.value.k)]
    /\ UNCHANGED <<agentVars, gatewayVars, cli, ui>>

Shifts == IF build.pc = "ready" THEN 0..(Len(build.outcome.value.store) - 1) ELSE {}

BuildNext ==
    \/ \E fsys \in FileSystems, kbDir \in KbDirs : BuildRetriever(fsys, kbDir)
    \/ SplitDone
    \/ EmbedDone
    \/ EmbedFail
    \/ \E q \in {<<>>, W_github, DefaultQuery}, shift \in Shifts : GetRelevantDocuments(q, shift)

BuildSpec == Init /\ [][BuildNext]_vars

BuildCalled == build.pc # "idle"

\* C25: a retrieval returns at most k documents, k being 5, and each of
\* them comes from a file of the file system whose path lies under the
\* directory given to buildRetriever.
C25_AtMostKFromKbDir ==
    BuildCalled
    => /\ Len(build.retrieved) <= 5
       /\ build.pc = "ready" => build.outcome.value.k = 5
       /\ \A j \in 1..Len(build.retrieved) :
             LET file == build.retrieved[j].metadata.file
             IN  /\ \E f \in build.fsys : f.path = file
                 /\ Len(file) > Len(build.kbDir)
                 /\ SubSeq(file, 1, Len(build.kbDir)) = build.kbDir

C25_Witness ==
    /\ BuildCalled
    /\ Len(build.retrieved) = 5
    /\ Len(build.docs) > 5
    /\ \E f \in build.fsys : f.len > 0 /\ ~IsPrefix(build.kbDir, f.path)

UnreadableUnderKbDir ==
    {f \in build.fsys : ~f.readable /\ IsPrefix(build.kbDir, f.path)}

\* C26: when a file under the directory cannot be read the build gives no
\* retriever: it never gets to building the store, and it ends rejected with
\* the error of the read.
C26_UnreadableFileFailsBuild ==
    BuildCalled /\ UnreadableUnderKbDir # {}
    => /\ build.pc \in {"splitting", "failed"}
       /\ build.outcome.status # "fulfilled"
       /\ build.pc = "failed" =>
             \E f \in UnreadableUnderKbDir : build.outcome = Rejected(EACCES(f.path))

C26_Witness ==
    /\ BuildCalled /\ UnreadableUnderKbDir # {}
    /\ build.pc = "failed"
    /\ build.docs # <<>>


-----------------------------------------------------------------------------
(* What the gateway forwards.                                              *)

\* Envelopes with top-level fields beyond the four of a JSON-RPC request.
ForwardBodies ==
    { BaseBody,
      [jsonrpc |-> Str(<<"2.0">>), method |-> Str(<<"invoke_method">>),
       params |-> [path |-> Str(<<"/tmp">>)], id |-> Str(<<"a">>),
       extra |-> Str(<<"x">>)],
      [jsonrpc |-> Str(<<"2.0">>), method |-> Str(<<"ping">>),
       params |-> Undefined, id |-> Undefined,
       auth |-> Str(<<"token">>), target |-> Str(<<"github">>)] }

ForwardNext ==
    \/ \E r \in Requests, target \in {"filesystem", "github"}, body \in ForwardBodies :
          Post(r, target, body)
    \/ \E r \in Awaiting : \E reply \in BackendReplies(LastSent(r).payload) :
          BackendRespond(r, reply)
    \/ \E r \in Requests : NetworkError(r)
    \/ \E r \in Requests : Timeout(r)

ForwardSpec == Init /\ [][ForwardNext]_vars

EnvelopeFields == {"jsonrpc", "method", "params", "id"}

\* C27: the body sent to the backend has the fields jsonrpc, method, params
\* and id of the inbound body, with their inbound values, and no other
\* field.
C27_OnlyEnvelopeForwarded ==
    \A r \in Requests : \A i \in 1..Len(sent[r]) :
        /\ DOMAIN sent[r][i].payload = EnvelopeFields
        /\ \A f \in EnvelopeFields : sent[r][i].payload[f] = req[r].body[f]

C27_Witness ==
    \E r \in Requests :
        /\ Len(sent[r]) = 1
        /\ "extra" \in DOMAIN req[r].body
        /\ sent[r][1].payload.params = [path |-> Str(<<"/tmp">>)]

\* The name a sequence of characters spells.
RECURSIVE NameOf(_)
NameOf(chars) == IF chars = <<>> THEN "" ELSE chars[1] \o NameOf(Tail(chars))

\* The gateway's lookup finds a URL for the name, so the handler does not
\* answer 404.
Routable(name) ==
    /\ \E i \in 1..Len(TARGETS) : TARGETS[i].key = name
    /\ ~Falsy(TargetsGet(name))
    /\ TargetsGet(name).t = "string"

\* C29: each of the names parseQuery chooses the tool from, and so every
\* tool it returns, is a key of the default registry: the gateway's lookup
\* for it succeeds and the call is not answered 404 Unknown target.
C29_ParsedToolIsRegistered ==
    /\ \A i \in 1..Len(KnownTools) : Routable(NameOf(KnownTools[i]))
    /\ parsedQuery # <<>> => Routable(NameOf(parsedQuery[1].tool))

C29_Witness ==
    /\ parsedQuery # <<>>
    /\ NameOf(parsedQuery[1].tool) = "github"
    /\ TargetsGet("github") = Str(<<"http://localhost:7002">>)

RouteState(r) == <<pc[r], req[r], sent[r], settled[r], res[r]>>
Done == {r \in Requests : pc[r] = "done"}

\* C30: requests that came with the same target and body and had the same
\* backend exchange got the same status and body, whatever else was in
\* flight; and a step of one request (its failure or timeout included)
\* leaves every other request as it was.
C30_RoutedRequestsIndependent ==
    /\ [](\A r, s \in Done :
             req[r] = req[s] /\ settled[r] = settled[s] => res[r] = res[s])
    /\ [][\A r, s \in Requests :
             r # s /\ RouteState(r)' # RouteState(r) => RouteState(s)' = RouteState(s)]_vars

C30_Witness ==
    \E r, s \in Done :
        /\ r # s
        /\ settled[r] = Rejected(AxiosTimeoutError(RouteTimeoutMs))
        /\ res[r].statusCode = 500
        /\ settled[s].status = "fulfilled"
        /\ res[s].statusCode = 200

====
